---- MODULE Spec2Model ----
(***************************************************************************)
(* The content-collection build of apps/web/content-collections.ts: each   *)
(* document of the "docs" and "blogs" collections is compiled by           *)
(* compileMDX with six rehype plugins applied in the order of the          *)
(* rehypePlugins array, and the transform then assembles the compiled      *)
(* record (slug, slugAsParams, read time, author, legacy aliases).  The     *)
(* locale proxy of the web application, which redirects a request without  *)
(* locale to the path under a locale, is modelled beside it.               *)
(*                                                                         *)
(* Strings the code takes apart are sequences: a path is a sequence of     *)
(* tokens (segment names and the separators "/" and "\\"), a code fence's  *)
(* text is a sequence of characters.  Strings the code only compares or    *)
(* copies (ids, names) are TLA+ strings.  A JavaScript property that is    *)
(* undefined is a key absent from the function that models the object.     *)
(***************************************************************************)
EXTENDS Integers, Sequences, FiniteSets, TLC

VARIABLES doc, tree, pc, ran, store, platformSep, authors, errors, build, request

vars == <<doc, tree, pc, ran, store, platformSep, authors, errors, build, request>>

(***************************************************************************)
(* Bounds of the model.                                                    *)
(***************************************************************************)
\* documents the store holds at most, over both collections
MaxDocs == 2
\* segments of a document path
MaxSegs == 3
\* blocks (headings, fences) of a document body in the pipeline specification
MaxBlocks == 2
\* multiples of wordsPerMinute the sampled word counts reach
MaxMinutes == 2
\* the sampled word counts lie within this distance of a multiple of wordsPerMinute
WordWindow == 1
\* whitespace characters before the first and after the last word of a body
MaxPad == 1
MaxHeadings == 3
\* files of one build
MaxFiles == 3
\* lines of a fence in the highlighting specification
MaxLines == 2
\* segments of a requested path
MaxPathSegs == 2
\* language tags of an Accept-Language header
MaxLanguages == 2
\* redirects a client follows for one request
MaxRedirects == 3

(***************************************************************************)
(* Generic helpers.                                                        *)
(***************************************************************************)
Undefined == "undefined"

EmptyObject == [k \in {} |-> TRUE]

Has(obj, k) == k \in DOMAIN obj

\* obj[k] = v; assigning undefined leaves the key without a value
SetKey(obj, k, v) == [x \in (DOMAIN obj) \cup {k} |-> IF x = k THEN v ELSE obj[x]]

DelKey(obj, k) == [x \in (DOMAIN obj) \ {k} |-> obj[x]]

StartsWith(s, prefix) ==
    /\ Len(s) >= Len(prefix)
    /\ SubSeq(s, 1, Len(prefix)) = prefix

EndsWith(s, suffix) ==
    /\ Len(s) >= Len(suffix)
    /\ SubSeq(s, Len(s) - Len(suffix) + 1, Len(s)) = suffix

ReplaceFirst_Last(s, pat, rep) ==
    LET hits == {i \in 1..(Len(s) - Len(pat) + 1) : SubSeq(s, i, i + Len(pat) - 1) = pat}
    IN IF hits = {} THEN s
       ELSE LET i == CHOOSE h \in hits : \A g \in hits : h >= g
            IN SubSeq(s, 1, i - 1) \o rep \o SubSeq(s, i + Len(pat), Len(s))

\* String.prototype.replace(pattern: string, replacement): the first occurrence only
ReplaceFirst(s, pat, rep) ==
    LET hits == {i \in 1..(Len(s) - Len(pat) + 1) : SubSeq(s, i, i + Len(pat) - 1) = pat}
    IN IF hits = {} THEN s
       ELSE LET i == CHOOSE h \in hits : \A g \in hits : h <= g
            IN SubSeq(s, 1, i - 1) \o rep \o SubSeq(s, i + Len(pat), Len(s))

\* String.prototype.split(sep) for a one-token separator: the pieces between separators
RECURSIVE SplitOn(_, _)
SplitOn(s, sep) ==
    LET hits == {i \in 1..Len(s) : s[i] = sep}
    IN IF hits = {} THEN <<s>>
       ELSE LET i == CHOOSE h \in hits : \A g \in hits : h <= g
            IN <<SubSeq(s, 1, i - 1)>> \o SplitOn(SubSeq(s, i + 1, Len(s)), sep)

\* Array.prototype.join(sep) of pieces that are token sequences
RECURSIVE JoinWith(_, _)
JoinWith(parts, sep) ==
    IF Len(parts) = 0 THEN <<>>
    ELSE IF Len(parts) = 1 THEN parts[1]
    ELSE parts[1] \o <<sep>> \o JoinWith(Tail(parts), sep)

\* Math.ceil(n / d) for n >= 0, d > 0
CeilDiv(n, d) == (n + d - 1) \div d

(***************************************************************************)
(* Slug derivation.                                                        *)
(***************************************************************************)
\* a replace without the g flag: the first backslash only
NormalizeSeparators_FirstOnly(p) == ReplaceFirst(p, <<"\\">>, <<"/">>)

\* path.replace(/\\/g, "/")
NormalizeSeparators(p) == [i \in 1..Len(p) |-> IF p[i] = "\\" THEN "/" ELSE p[i]]

StripTrailingIndex_Kept(p) == p

\* .replace(/\/index$/, "")
StripTrailingIndex(p) ==
    IF EndsWith(p, <<"/", "index">>) THEN SubSeq(p, 1, Len(p) - 2) ELSE p

\* .replace(/^index$/, "")
StripWholeIndex(p) == IF p = <<"index">> THEN <<>> ELSE p

DocsCleanPath(path) == StripWholeIndex(StripTrailingIndex(NormalizeSeparators(path)))

\* normalizedPath.split("/")[0]
FirstSegment(path) == SplitOn(NormalizeSeparators(path), "/")[1]

DocsSlugAsParams(path) ==
    IF DocsCleanPath(path) # <<>> THEN DocsCleanPath(path) ELSE FirstSegment(path)

DocsSlug(path) ==
    IF DocsCleanPath(path) # <<>> THEN <<"/">> \o DocsCleanPath(path)
    ELSE <<"/">> \o FirstSegment(path)

\* pathParts.slice(1).join("/")
BlogsSlugAsParams_SkipLocale(path) ==
    JoinWith(Tail(SplitOn(NormalizeSeparators(path), "/")), "/")

BlogsSlugAsParams(path) == JoinWith(SplitOn(NormalizeSeparators(path), "/"), "/")

BlogsSlug_SkipFirst(path) ==
    <<"/">> \o JoinWith(Tail(SplitOn(NormalizeSeparators(path), "/")), "/")

BlogsSlug(path) == <<"/">> \o NormalizeSeparators(path)

(***************************************************************************)
(* Read time.  A body is kept run-length encoded: lead whitespace          *)
(* characters, then words maximal runs of non-whitespace separated by      *)
(* whitespace, then trail whitespace characters.                           *)
(***************************************************************************)
wordsPerMinute == 200

\* String.prototype.trim()
Trim(content) == [content EXCEPT !.lead = 0, !.trail = 0]

\* content.split(/\s+/).length: the separators cut an empty piece off each padded
\* end, and a string with no separator is one piece, the empty string included
SplitWhitespaceLength(content) ==
    IF content.words = 0
    THEN (IF content.lead + content.trail > 0 THEN 2 ELSE 1)
    ELSE content.words + (IF content.lead > 0 THEN 1 ELSE 0)
                       + (IF content.trail > 0 THEN 1 ELSE 0)

numberOfWords_Untrimmed(content) == SplitWhitespaceLength(content)

numberOfWords(content) == SplitWhitespaceLength(Trim(content))

readTimeInMinutes_Floor(content) == numberOfWords(content) \div wordsPerMinute

readTimeInMinutes(content) == CeilDiv(numberOfWords(content), wordsPerMinute)

(***************************************************************************)
(* Author resolution.                                                      *)
(***************************************************************************)
blogConfigAuthors ==
    << [ id     |-> "huynhsang",
         name   |-> "Huỳnh Sang",
         image  |-> "/authors/huynhsang.jpg",
         site   |-> "https://github.com/HuynhSang2005",
         email  |-> "huynhsang2005@example.com",
         bio    |-> [vi |-> "Lập trình viên | Người yêu công nghệ | Blogger"],
         social |-> [github |-> "HuynhSang2005", twitter |-> "@huynhsang",
                     youtube |-> "huynhsang", linkedin |-> "huynhsang"] ] >>

\* the authors table a build is configured with: blogConfig.authors as shipped,
\* or the same entry with an English bio beside the Vietnamese one
AuthorsTables ==
    { blogConfigAuthors,
      [blogConfigAuthors EXCEPT
         ![1].bio = [vi |-> @.vi, en |-> "Developer | Tech lover | Blogger"]] }

\* const [, locale] = normalizedDir.split("/")
LocaleOfDirectory(directory) ==
    LET parts == SplitOn(NormalizeSeparators(directory), "/")
    IN IF Len(parts) >= 2 THEN parts[2] ELSE <<Undefined>>

\* authorData.bio?.[locale]: the bio record is keyed by locale names
BioAt(bio, key) ==
    IF Len(key) = 1 /\ key[1] \in DOMAIN bio THEN bio[key[1]] ELSE Undefined

Falsy(v) == v = Undefined \/ v = ""

\* authorData.bio?.[locale] || authorData.bio?.vi
LocalizedBio(authorData, locale) ==
    IF ~Falsy(BioAt(authorData.bio, locale)) THEN BioAt(authorData.bio, locale)
    ELSE BioAt(authorData.bio, <<"vi">>)

\* blogConfig.authors.find((author) => author.id === doc.author_id)
FindAuthor_FirstAuthor(author_id) == <<authors[1]>>

FindAuthor(author_id) ==
    LET hits == {i \in 1..Len(authors) : authors[i].id = author_id}
    IN IF hits = {} THEN <<>>
       ELSE <<authors[CHOOSE h \in hits : \A g \in hits : h <= g]>>

ResolveAuthor(author_id, directory) ==
    LET authorData == FindAuthor(author_id)
    IN IF authorData # <<>>
       THEN [authorData[1] EXCEPT !.bio = LocalizedBio(authorData[1], LocaleOfDirectory(directory))]
       ELSE [id |-> author_id]

(***************************************************************************)
(* The syntax tree.  An element carries its hast fields (tagName,          *)
(* properties, data, children) and, in expando, the fields the plugins     *)
(* write on the node object itself (node.__rawString__, ...).              *)
(***************************************************************************)
Text(v) == [type |-> "text", value |-> v]

Element(tag, props, kids) ==
    [type |-> "element", tagName |-> tag, properties |-> props,
     data |-> EmptyObject, expando |-> EmptyObject, children |-> kids]

IsElement(node) == node.type = "element"

IsHeading(node) == IsElement(node) /\ node.tagName \in {"h1", "h2", "h3", "h4", "h5", "h6"}

\* block[key] as <<value>>, or <<>> when the block has no such field
OptionOf(block, key) == IF Has(block, key) THEN block[key] ELSE <<>>

\* the properties of a fence's pre: the __src__ and __style__ the fence carries
PreProperties(block) ==
    [k \in {x \in {"__src__", "__style__"} : OptionOf(block, x) # <<>>} |->
        OptionOf(block, k)[1]]

\* the tree the markup parser hands to the rehype plugins: a heading becomes an
\* h2 over its text, a fence becomes pre > code > text, the fence header's
\* language in the code's className and the rest of the header in data.meta:
\* whether it has a title and a caption, and the line numbers of its {...} ranges
ParseBlock(block) ==
    IF block.kind = "heading"
    THEN Element("h2", EmptyObject, <<Text(block.text)>>)
    ELSE Element("pre", PreProperties(block),
           << [Element("code", [className |-> << <<"language-", block.lang>> >>],
                        <<Text(block.text)>>)
                 EXCEPT !.data = [meta |-> [title |-> block.title,
                                            caption |-> block.caption,
                                            lines |-> IF Has(block, "lines")
                                                      THEN block.lines ELSE {}]]] >>)

Parse(body) == [i \in 1..Len(body) |-> ParseBlock(body[i])]

(***************************************************************************)
(* Pass 1, rehypeSlug: every heading without an id gets the slug of its    *)
(* text, made unique within the document by a numeric suffix.              *)
(***************************************************************************)
Lower ==
    [Intro |-> "intro", Usage |-> "usage", intro |-> "intro", usage |-> "usage"]

\* characters github-slugger's regex removes
Punctuation == {"?", "!"}

Digits == <<"1", "2", "3", "4", "5", "6", "7", "8", "9">>

\* github-slugger's slugify over word and space tokens
Slugify(text) ==
    LET kept == SelectSeq(text, LAMBDA t : t \notin Punctuation)
    IN [i \in 1..Len(kept) |->
          IF kept[i] = " " THEN "-"
          ELSE IF kept[i] \in DOMAIN Lower THEN Lower[kept[i]] ELSE kept[i]]

\* BananaSlug.slug's loop: [occurrences, result]
RECURSIVE SluggerLoop(_, _, _)
SluggerLoop(occurrences, original, result) ==
    IF result \in DOMAIN occurrences
    THEN LET bumped == SetKey(occurrences, original, occurrences[original] + 1)
         IN SluggerLoop(bumped, original, original \o <<"-", Digits[bumped[original]]>>)
    ELSE [occurrences |-> SetKey(occurrences, result, 0), result |-> result]

HeadingText(node) ==
    IF Len(node.children) > 0 /\ node.children[1].type = "text"
    THEN node.children[1].value ELSE <<>>

\* the nodes from position i on, with the slugger's occurrences so far
RECURSIVE SlugFrom(_, _, _)
SlugFrom(nodes, i, occurrences) ==
    IF i > Len(nodes) THEN nodes
    ELSE IF IsHeading(nodes[i]) /\ ~Has(nodes[i].properties, "id")
    THEN LET r == SluggerLoop(occurrences, Slugify(HeadingText(nodes[i])),
                              Slugify(HeadingText(nodes[i])))
         IN SlugFrom([nodes EXCEPT ![i].properties = SetKey(@, "id", r.result)],
                     i + 1, r.occurrences)
    ELSE SlugFrom(nodes, i + 1, occurrences)

\* a slugger kept across documents: the ids of the stored records' headings are
\* taken already
RehypeSlug_SharedSlugger(nodes) ==
    LET taken == UNION {{r.mdx[i].properties["id"] :
                           i \in {j \in 1..Len(r.mdx) : IsHeading(r.mdx[j])}} :
                        r \in store.docs \cup store.blogs}
    IN SlugFrom(nodes, 1, [k \in taken |-> 0])

RehypeSlug(nodes) == SlugFrom(nodes, 1, EmptyObject)

(***************************************************************************)
(* Pass 2, raw capture: on every pre whose first child is a code element,  *)
(* the code's first child's text and the pre's __src__ and __style__       *)
(* properties are written on the pre node itself.                          *)
(***************************************************************************)
\* obj.key = value, where an undefined value leaves the key undefined
Assign(obj, key, value) ==
    IF value = <<>> THEN DelKey(obj, key) ELSE SetKey(obj, key, value[1])

\* codeEl.children?.[0]?.value, as <<value>> or <<>> when undefined
FirstChildValue(codeEl) ==
    IF Len(codeEl.children) > 0 /\ codeEl.children[1].type = "text"
    THEN <<codeEl.children[1].value>> ELSE <<>>

\* node.properties?.[key], as <<value>> or <<>> when undefined
PropertyOf(node, key) ==
    IF Has(node.properties, key) THEN <<node.properties[key]>> ELSE <<>>

ExpandoOf(node, key) ==
    IF Has(node.expando, key) THEN <<node.expando[key]>> ELSE <<>>

CaptureOnPre(node) ==
    IF /\ IsElement(node) /\ node.tagName = "pre"
       /\ Len(node.children) > 0
       /\ IsElement(node.children[1]) /\ node.children[1].tagName = "code"
    THEN [node EXCEPT !.expando =
            Assign(Assign(Assign(@, "__rawString__", FirstChildValue(node.children[1])),
                          "__src__", PropertyOf(node, "__src__")),
                   "__style__", PropertyOf(node, "__style__"))]
    ELSE node

\* unist-util-visit: the visitor on the node, then on its children
RECURSIVE RawCaptureVisit(_)
RawCaptureVisit(node) ==
    IF ~IsElement(node) THEN node
    ELSE LET visited == CaptureOnPre(node)
         IN [visited EXCEPT !.children =
               [i \in 1..Len(visited.children) |-> RawCaptureVisit(visited.children[i])]]

RawCapture(nodes) == [i \in 1..Len(nodes) |-> RawCaptureVisit(nodes[i])]

(***************************************************************************)
(* Pass 3, rehypePrettyCode with this repository's options: a pre over one *)
(* code over text becomes, in place, a figure whose children are the title *)
(* caption (when the fence header has a title), a new pre over a new code  *)
(* over one span per line, and the caption (when the header has one).  The *)
(* figure is the old node object, so what pass 2 wrote on it stays on it.  *)
(***************************************************************************)
StripFinalNewline(text) ==
    IF Len(text) > 0 /\ text[Len(text)] = "\n" THEN SubSeq(text, 1, Len(text) - 1) ELSE text

onVisitLine_Skip(node) == node

\* onVisitLine: an empty line gets one text child holding a space
onVisitLine(node) ==
    IF Len(node.children) = 0 THEN [node EXCEPT !.children = <<Text(<<" ">>)>>] ELSE node

LineElement(line) ==
    onVisitLine(Element("span", ("data-line" :> ""),
                        IF line = <<>> THEN <<>>
                        ELSE <<Element("span", [style |-> "token"], <<Text(line)>>)>>))

\* onVisitHighlightedLine: node?.properties?.className?.push("line--highlighted")
onVisitHighlightedLine(node) ==
    IF Has(node.properties, "className")
    THEN [node EXCEPT !.properties["className"] = Append(@, "line--highlighted")]
    ELSE node

\* the n-th line of a fence: a line the header's ranges select is marked
\* data-highlighted-line and handed to onVisitHighlightedLine
VisitedLine(line, n, lineNumbers) ==
    IF n \in lineNumbers
    THEN onVisitHighlightedLine(
           [LineElement(line) EXCEPT !.properties = SetKey(@, "data-highlighted-line", "")])
    ELSE LineElement(line)

IsBlockCode(node) ==
    /\ IsElement(node) /\ node.tagName = "pre"
    /\ Len(node.children) = 1
    /\ IsElement(node.children[1]) /\ node.children[1].tagName = "code"
    /\ Len(node.children[1].children) > 0
    /\ node.children[1].children[1].type = "text"

HighlightedPre(codeEl) ==
    LET lines == SplitOn(StripFinalNewline(codeEl.children[1].value), "\n")
        lang  == codeEl.properties.className[1][2]
    IN Element("pre", ("data-language" :> lang) @@ ("data-theme" :> "aura-theme"),
               << Element("code", ("data-language" :> lang) @@ ("data-theme" :> "aura-theme"),
                          [i \in 1..Len(lines) |->
                             VisitedLine(lines[i], i, codeEl.data.meta.lines)]) >>)

\* a highlighter that itself records the fence's text on the figure
FigureOf_KeepsSource(node) ==
    LET codeEl == node.children[1]
        meta   == codeEl.data.meta
    IN [node EXCEPT
          !.tagName = "figure",
          !.properties = ("data-rehype-pretty-code-figure" :> ""),
          !.expando = SetKey(@, "__rawString__", codeEl.children[1].value),
          !.children =
             (IF meta.title
              THEN <<Element(IF meta.caption THEN "div" ELSE "figcaption",
                             ("data-rehype-pretty-code-title" :> ""),
                             <<Text(<<"title">>)>>)>>
              ELSE <<>>)
             \o <<HighlightedPre(codeEl)>>
             \o (IF meta.caption
                 THEN <<Element("figcaption", ("data-rehype-pretty-code-caption" :> ""),
                                <<Text(<<"caption">>)>>)>>
                 ELSE <<>>)]

FigureOf(node) ==
    LET codeEl == node.children[1]
        meta   == codeEl.data.meta
    IN [node EXCEPT
          !.tagName = "figure",
          !.properties = ("data-rehype-pretty-code-figure" :> ""),
          !.children =
             (IF meta.title
              THEN <<Element(IF meta.caption THEN "div" ELSE "figcaption",
                             ("data-rehype-pretty-code-title" :> ""),
                             <<Text(<<"title">>)>>)>>
              ELSE <<>>)
             \o <<HighlightedPre(codeEl)>>
             \o (IF meta.caption
                 THEN <<Element("figcaption", ("data-rehype-pretty-code-caption" :> ""),
                                <<Text(<<"caption">>)>>)>>
                 ELSE <<>>)]

RECURSIVE PrettyCodeVisit(_)
PrettyCodeVisit(node) ==
    IF ~IsElement(node) THEN node
    ELSE IF IsBlockCode(node) THEN FigureOf(node)
    ELSE [node EXCEPT !.children =
            [i \in 1..Len(node.children) |-> PrettyCodeVisit(node.children[i])]]

RehypePrettyCode(nodes) == [i \in 1..Len(nodes) |-> PrettyCodeVisit(nodes[i])]

(***************************************************************************)
(* Pass 4, metadata hoist: on every element whose last child is a pre,     *)
(* that pre's properties receive __withMeta__, the element's __rawString__ *)
(* and, when truthy, its __src__ and __style__.                            *)
(***************************************************************************)
Truthy(value) == value # <<>> /\ value[1] # ""

AssignIfTruthy(obj, key, value) ==
    IF Truthy(value) THEN SetKey(obj, key, value[1]) ELSE obj

FirstChildIsDiv_HasTitle(node) == Len(node.children) > 1

\* node?.children?.at(0)?.tagName === "div"
FirstChildIsDiv(node) ==
    /\ Len(node.children) > 0
    /\ IsElement(node.children[1])
    /\ node.children[1].tagName = "div"

\* node?.children?.at(-1)?.tagName === "pre"
LastChildIsPre(node) ==
    /\ Len(node.children) > 0
    /\ IsElement(node.children[Len(node.children)])
    /\ node.children[Len(node.children)].tagName = "pre"

HoistOnto(node) ==
    IF IsElement(node) /\ LastChildIsPre(node)
    THEN [node EXCEPT !.children[Len(node.children)].properties =
            AssignIfTruthy(
              AssignIfTruthy(
                Assign(SetKey(@, "__withMeta__", FirstChildIsDiv(node)),
                       "__rawString__", ExpandoOf(node, "__rawString__")),
                "__src__", ExpandoOf(node, "__src__")),
              "__style__", ExpandoOf(node, "__style__"))]
    ELSE node

RECURSIVE HoistVisit(_)
HoistVisit(node) ==
    IF ~IsElement(node) THEN node
    ELSE LET visited == HoistOnto(node)
         IN [visited EXCEPT !.children =
               [i \in 1..Len(visited.children) |-> HoistVisit(visited.children[i])]]

MetaHoist(nodes) == [i \in 1..Len(nodes) |-> HoistVisit(nodes[i])]

(***************************************************************************)
(* Pass 5, rehypeNpmCommand: on every pre whose __rawString__ property     *)
(* starts with an installer invocation, the command of each package        *)
(* manager is written into the pre's properties.                           *)
(***************************************************************************)
NpmI == <<"n", "p", "m", " ", "i">>
NpxCreate == <<"n", "p", "x", " ", "c", "r", "e", "a", "t", "e", "-">>
Npx == <<"n", "p", "x">>
YarnAdd == <<"y", "a", "r", "n", " ", "a", "d", "d">>
PnpmAdd == <<"p", "n", "p", "m", " ", "a", "d", "d">>
BunAdd == <<"b", "u", "n", " ", "a", "d", "d">>
YarnCreate == <<"y", "a", "r", "n", " ", "c", "r", "e", "a", "t", "e", " ">>
PnpmCreate == <<"p", "n", "p", "m", " ", "c", "r", "e", "a", "t", "e", " ">>
PnpmDlx == <<"p", "n", "p", "m", " ", "d", "l", "x">>
BunxBun == <<"b", "u", "n", "x", " ", "-", "-", "b", "u", "n">>

RawStartsWith_Always(props, prefix) == Has(props, "__rawString__")

\* node.properties?.__rawString__?.startsWith(prefix)
RawStartsWith(props, prefix) ==
    Has(props, "__rawString__") /\ StartsWith(props["__rawString__"], prefix)

SetCommands_NoBun(props, npm, yarn, pnpm, bun) ==
    SetKey(SetKey(SetKey(props, "__npmCommand__", npm),
                  "__yarnCommand__", yarn),
           "__pnpmCommand__", pnpm)

SetCommands(props, npm, yarn, pnpm, bun) ==
    SetKey(SetKey(SetKey(SetKey(props, "__npmCommand__", npm),
                         "__yarnCommand__", yarn),
                  "__pnpmCommand__", pnpm),
           "__bunCommand__", bun)

InstallBranch(props) ==
    IF RawStartsWith(props, NpmI)
    THEN LET npmCommand == props["__rawString__"]
         IN SetCommands(props, npmCommand,
                        ReplaceFirst(npmCommand, NpmI, YarnAdd),
                        ReplaceFirst(npmCommand, NpmI, PnpmAdd),
                        ReplaceFirst(npmCommand, NpmI, BunAdd))
    ELSE props

CreateBranch(props) ==
    IF RawStartsWith(props, NpxCreate)
    THEN LET npmCommand == props["__rawString__"]
         IN SetCommands(props, npmCommand,
                        ReplaceFirst(npmCommand, NpxCreate, YarnCreate),
                        ReplaceFirst(npmCommand, NpxCreate, PnpmCreate),
                        ReplaceFirst(npmCommand, Npx, BunxBun))
    ELSE props

NpxBranch_Unguarded(props) ==
    IF RawStartsWith(props, Npx)
    THEN LET npmCommand == props["__rawString__"]
         IN SetCommands(props, npmCommand, npmCommand,
                        ReplaceFirst(npmCommand, Npx, PnpmDlx),
                        ReplaceFirst(npmCommand, Npx, BunxBun))
    ELSE props

NpxBranch(props) ==
    IF RawStartsWith(props, Npx) /\ ~RawStartsWith(props, NpxCreate)
    THEN LET npmCommand == props["__rawString__"]
         IN SetCommands(props, npmCommand, npmCommand,
                        ReplaceFirst(npmCommand, Npx, PnpmDlx),
                        ReplaceFirst(npmCommand, Npx, BunxBun))
    ELSE props

RECURSIVE NpmCommandVisit(_)
NpmCommandVisit(node) ==
    IF ~IsElement(node) THEN node
    ELSE LET visited ==
               IF node.tagName = "pre"
               THEN [node EXCEPT !.properties = NpxBranch(CreateBranch(InstallBranch(@)))]
               ELSE node
         IN [visited EXCEPT !.children =
               [i \in 1..Len(visited.children) |-> NpmCommandVisit(visited.children[i])]]

RehypeNpmCommand(nodes) == [i \in 1..Len(nodes) |-> NpmCommandVisit(nodes[i])]

(***************************************************************************)
(* Pass 6, rehypeAutolinkHeadings: every heading with an id gets, as its   *)
(* first child, a link to "#" followed by that id.                         *)
(***************************************************************************)
AnchorTo(id) ==
    Element("a", [ariaLabel |-> "Link to section",
                  className |-> <<"subheading-anchor">>,
                  href      |-> <<"#">> \o id],
            <<Element("span", [className |-> <<"icon", "icon-link">>], <<>>)>>)

RECURSIVE AutolinkVisit(_)
AutolinkVisit(node) ==
    IF ~IsElement(node) THEN node
    ELSE IF IsHeading(node) /\ Has(node.properties, "id") /\ node.properties["id"] # <<>>
    THEN [node EXCEPT !.children = <<AnchorTo(node.properties["id"])>> \o @]
    ELSE [node EXCEPT !.children =
            [i \in 1..Len(node.children) |-> AutolinkVisit(node.children[i])]]

RehypeAutolinkHeadings(nodes) == [i \in 1..Len(nodes) |-> AutolinkVisit(nodes[i])]

(***************************************************************************)
(* The plugin list of compileMDX, in the order of the rehypePlugins array. *)
(***************************************************************************)
rehypePlugins_HighlightFirst ==
    <<"rehypeSlug", "rehypePrettyCode", "rawCapture", "metaHoist",
      "rehypeNpmCommand", "rehypeAutolinkHeadings">>

rehypePlugins ==
    <<"rehypeSlug", "rawCapture", "rehypePrettyCode", "metaHoist",
      "rehypeNpmCommand", "rehypeAutolinkHeadings">>

(***************************************************************************)
(* Source documents.  The collection library hands the transform the       *)
(* document's path without extension, its file path, file name and         *)
(* directory (relative to the collection's directory), its raw content     *)
(* and its validated front matter.                                         *)
(***************************************************************************)
\* the path separator of the platform the build runs on: "\\" on Windows
Separators == {"/", "\\"}

IsSeparator(t) == t \in Separators

\* the tokens before the last separator, "." for a file in the collection's directory
Dirname(p) ==
    LET seps == {i \in 1..Len(p) : IsSeparator(p[i])}
    IN IF seps = {} THEN <<".">>
       ELSE SubSeq(p, 1, (CHOOSE h \in seps : \A g \in seps : g <= h) - 1)

Basename(p) ==
    LET seps == {i \in 1..Len(p) : IsSeparator(p[i])}
    IN IF seps = {} THEN p
       ELSE SubSeq(p, (CHOOSE h \in seps : \A g \in seps : g <= h) + 1, Len(p))

MetaOf(rel) ==
    [path      |-> rel,
     filePath  |-> rel \o <<".mdx">>,
     fileName  |-> Basename(rel) \o <<".mdx">>,
     directory |-> Dirname(rel)]

DocsSource(rel, content) ==
    [collection |-> "docs", meta |-> MetaOf(rel), content |-> content]

BlogsSource(rel, content, author_id) ==
    [collection |-> "blogs", meta |-> MetaOf(rel), content |-> content,
     author_id |-> author_id]

NoDoc == [collection |-> "none"]

(***************************************************************************)
(* The record each transform returns.                                      *)
(***************************************************************************)
LegacyRaw_PathAsFile(d) ==
    [sourceFilePath |-> d.meta.path,
     sourceFileName |-> d.meta.fileName,
     sourceFileDir  |-> d.meta.directory,
     flattenedPath  |-> NormalizeSeparators(d.meta.path),
     contentType    |-> "mdx"]

LegacyRaw(d) ==
    [sourceFilePath |-> d.meta.filePath,
     sourceFileName |-> d.meta.fileName,
     sourceFileDir  |-> d.meta.directory,
     flattenedPath  |-> NormalizeSeparators(d.meta.path),
     contentType    |-> "mdx"]

DocsRecord(d, mdx) ==
    [meta         |-> d.meta,
     content      |-> d.content,
     mdx          |-> mdx,
     slug         |-> DocsSlug(d.meta.path),
     slugAsParams |-> DocsSlugAsParams(d.meta.path),
     id           |-> d.meta.filePath,
     raw          |-> LegacyRaw(d),
     body         |-> [raw |-> d.content, code |-> mdx]]

BlogsRecord(d, mdx) ==
    [meta              |-> d.meta,
     content           |-> d.content,
     author_id         |-> d.author_id,
     mdx               |-> mdx,
     slug              |-> BlogsSlug(d.meta.path),
     slugAsParams      |-> BlogsSlugAsParams(d.meta.path),
     readTimeInMinutes |-> readTimeInMinutes(d.content),
     author            |-> ResolveAuthor(d.author_id, d.meta.directory),
     id                |-> d.meta.filePath,
     raw               |-> LegacyRaw(d),
     body              |-> [raw |-> d.content, code |-> mdx]]

(***************************************************************************)
(* The state machine: one document at a time goes through compileMDX's     *)
(* plugins and the assembly; the store keeps, per collection, the record   *)
(* of each file compiled so far.                                           *)
(***************************************************************************)
Idle == 0
\* no build has been started: nothing to read, nothing in transformation
NoBuild == [status |-> "idle", files |-> {}, pending |-> {}, running |-> {}]
Assembling == Len(rehypePlugins) + 1
\* no request has reached the proxy
NoRequest ==
    [status |-> "none", original |-> <<>>, pathname |-> <<>>, languages |-> <<>>,
     redirects |-> 0]

Stored == store.docs \cup store.blogs

Init ==
    /\ doc = NoDoc
    /\ tree = <<>>
    /\ pc = Idle
    /\ ran = <<>>
    /\ store = [docs |-> {}, blogs |-> {}]
    /\ platformSep \in Separators
    /\ authors \in AuthorsTables
    /\ errors = {}
    /\ build = NoBuild
    /\ request = NoRequest

\* the build (or a rebuild after a file change) starts the transform of one file
Begin(d) ==
    /\ pc = Idle
    /\ \/ Cardinality(Stored) < MaxDocs
       \/ \E r \in store[d.collection] : r.id = d.meta.filePath
    /\ doc' = d
    /\ tree' = Parse(d.content.blocks)
    /\ pc' = 1
    /\ ran' = <<>>
    /\ UNCHANGED <<store, platformSep, authors, errors, build, request>>

\* compileMDX runs the plugin at position pc of the list and moves to the next
Runs(name) ==
    /\ pc \in 1..Len(rehypePlugins)
    /\ rehypePlugins[pc] = name

Advance(name) ==
    /\ ran' = Append(ran, name)
    /\ pc' = pc + 1
    /\ UNCHANGED <<doc, store, platformSep, authors, errors, build, request>>

RehypeSlugPass ==
    /\ Runs("rehypeSlug")
    /\ tree' = RehypeSlug(tree)
    /\ Advance("rehypeSlug")

RawCapturePass ==
    /\ Runs("rawCapture")
    /\ tree' = RawCapture(tree)
    /\ Advance("rawCapture")

RehypePrettyCodePass ==
    /\ Runs("rehypePrettyCode")
    /\ tree' = RehypePrettyCode(tree)
    /\ Advance("rehypePrettyCode")

MetaHoistPass ==
    /\ Runs("metaHoist")
    /\ tree' = MetaHoist(tree)
    /\ Advance("metaHoist")

RehypeNpmCommandPass ==
    /\ Runs("rehypeNpmCommand")
    /\ tree' = RehypeNpmCommand(tree)
    /\ Advance("rehypeNpmCommand")

RehypeAutolinkHeadingsPass ==
    /\ Runs("rehypeAutolinkHeadings")
    /\ tree' = RehypeAutolinkHeadings(tree)
    /\ Advance("rehypeAutolinkHeadings")

\* the record of a file replaces the record an earlier build stored for it
Put(records, r) == {x \in records : x.id # r.id} \cup {r}

DocsTransformReturn ==
    /\ pc = Assembling
    /\ doc.collection = "docs"
    /\ store' = [store EXCEPT !.docs = Put(@, DocsRecord(doc, tree))]
    /\ doc' = NoDoc
    /\ tree' = <<>>
    /\ pc' = Idle
    /\ ran' = <<>>
    /\ UNCHANGED <<platformSep, authors, errors, build, request>>

BlogsTransformReturn ==
    /\ pc = Assembling
    /\ doc.collection = "blogs"
    /\ store' = [store EXCEPT !.blogs = Put(@, BlogsRecord(doc, tree))]
    /\ doc' = NoDoc
    /\ tree' = <<>>
    /\ pc' = Idle
    /\ ran' = <<>>
    /\ UNCHANGED <<platformSep, authors, errors, build, request>>

(***************************************************************************)
(* Failures.  The collection library reports a document's failure as an    *)
(* error of the collection and leaves the document out of the collection's *)
(* documents.                                                              *)
(***************************************************************************)
Drop(records, id) == {x \in records : x.id # id}

TransformError(d) ==
    [collection |-> d.collection, filePath |-> d.meta.filePath,
     type |-> "Transform", fields |-> {}]

CompileThrows_KeepsPartial ==
    /\ pc \in 1..Len(rehypePlugins)
    /\ errors' = errors \cup {TransformError(doc)}
    /\ store' = [store EXCEPT ![doc.collection] =
                   Put(@, IF doc.collection = "docs" THEN DocsRecord(doc, tree)
                          ELSE BlogsRecord(doc, tree))]
    /\ doc' = NoDoc
    /\ tree' = <<>>
    /\ pc' = Idle
    /\ ran' = <<>>
    /\ UNCHANGED <<platformSep, authors, build, request>>

\* a plugin throws: compileMDX rejects, the transform's await throws and its
\* return is not reached
CompileThrows ==
    /\ pc \in 1..Len(rehypePlugins)
    /\ errors' = errors \cup {TransformError(doc)}
    /\ store' = [store EXCEPT ![doc.collection] = Drop(@, doc.meta.filePath)]
    /\ doc' = NoDoc
    /\ tree' = <<>>
    /\ pc' = Idle
    /\ ran' = <<>>
    /\ UNCHANGED <<platformSep, authors, build, request>>

(***************************************************************************)
(* The build.  The collection library reads the files of the collections,  *)
(* validates each file's front matter against the collection's schema,     *)
(* starts the transform of every valid file (the transforms run            *)
(* concurrently, each suspended at its await) and ends the build when all  *)
(* files are settled.                                                      *)
(***************************************************************************)
RequiredFields_ExcerptOptional ==
    [docs |-> {"title"}, blogs |-> {"title", "date", "tags"}]

\* the fields of each schema that are neither optional nor defaulted
RequiredFields ==
    [docs |-> {"title"}, blogs |-> {"title", "excerpt", "date", "tags"}]

\* a file of a collection: its path, the front-matter fields it has, its body
File(collection, rel, data, content) ==
    [collection |-> collection, rel |-> rel, data |-> data, content |-> content]

MissingFields(f) == RequiredFields[f.collection] \ f.data

ValidationError(f) ==
    [collection |-> f.collection, filePath |-> f.rel \o <<".mdx">>,
     type |-> "Validation", fields |-> MissingFields(f)]

\* the document the transform is called with
SourceOf(f) ==
    IF f.collection = "docs" THEN DocsSource(f.rel, f.content)
    ELSE BlogsSource(f.rel, f.content,
                     IF "author_id" \in f.data THEN "huynhsang" ELSE Undefined)

\* a body the MDX compiler rejects: it holds a tag that is never closed
Malformed(content) ==
    \E i \in 1..Len(content.blocks) : content.blocks[i].kind = "unclosed"

PluginNamed(name, nodes) ==
    CASE name = "rehypeSlug" -> RehypeSlug(nodes)
      [] name = "rawCapture" -> RawCapture(nodes)
      [] name = "rehypePrettyCode" -> RehypePrettyCode(nodes)
      [] name = "metaHoist" -> MetaHoist(nodes)
      [] name = "rehypeNpmCommand" -> RehypeNpmCommand(nodes)
      [] name = "rehypeAutolinkHeadings" -> RehypeAutolinkHeadings(nodes)

RECURSIVE RunPlugins(_, _)
RunPlugins(nodes, i) ==
    IF i > Len(rehypePlugins) THEN nodes
    ELSE RunPlugins(PluginNamed(rehypePlugins[i], nodes), i + 1)

\* compileMDX over a given plugin list
RECURSIVE RunList(_, _, _)
RunList(plugins, nodes, i) ==
    IF i > Len(plugins) THEN nodes
    ELSE RunList(plugins, PluginNamed(plugins[i], nodes), i + 1)

\* compileMDX from start to end
CompileMDX(d) == RunPlugins(Parse(d.content.blocks), 1)

RecordFor(d) ==
    IF d.collection = "docs" THEN DocsRecord(d, CompileMDX(d))
    ELSE BlogsRecord(d, CompileMDX(d))

\* a build starts over the files found: a new generation of documents
BuildStart(fs) ==
    /\ pc = Idle
    /\ build.status \in {"idle", "done"}
    /\ build' = [status |-> "running", files |-> fs, pending |-> fs, running |-> {}]
    /\ store' = [docs |-> {}, blogs |-> {}]
    /\ errors' = {}
    /\ UNCHANGED <<doc, tree, pc, ran, platformSep, authors, request>>

\* a file is validated; an invalid one is reported and skipped, the transform
\* of a valid one is started
ParseFile(f) ==
    /\ build.status = "running"
    /\ f \in build.pending
    /\ IF MissingFields(f) # {}
       THEN /\ errors' = errors \cup {ValidationError(f)}
            /\ build' = [build EXCEPT !.pending = @ \ {f}]
       ELSE /\ errors' = errors
            /\ build' = [build EXCEPT !.pending = @ \ {f},
                                       !.running = @ \cup {SourceOf(f)}]
    /\ UNCHANGED <<doc, tree, pc, ran, store, platformSep, authors, request>>

\* a running transform returns its record
TransformResolves(d) ==
    /\ build.status = "running"
    /\ d \in build.running
    /\ ~Malformed(d.content)
    /\ store' = [store EXCEPT ![d.collection] = Put(@, RecordFor(d))]
    /\ build' = [build EXCEPT !.running = @ \ {d}]
    /\ UNCHANGED <<doc, tree, pc, ran, platformSep, authors, errors, request>>

\* a running transform throws: the failure is reported, the document skipped
TransformRejects(d) ==
    /\ build.status = "running"
    /\ d \in build.running
    /\ Malformed(d.content)
    /\ errors' = errors \cup {TransformError(d)}
    /\ build' = [build EXCEPT !.running = @ \ {d}]
    /\ UNCHANGED <<doc, tree, pc, ran, store, platformSep, authors, request>>

\* every file is settled: the build ends, whatever was reported
BuildEnd ==
    /\ build.status = "running"
    /\ build.pending = {}
    /\ build.running = {}
    /\ build' = [build EXCEPT !.status = "done"]
    /\ UNCHANGED <<doc, tree, pc, ran, store, platformSep, authors, errors, request>>

(***************************************************************************)
(* The locale proxy.  A path is a sequence of characters; the               *)
(* Accept-Language header is the sequence of its language tags in the      *)
(* order of preference, as Negotiator's languages() returns them.          *)
(***************************************************************************)
i18nConfig == [locales |-> <<"en", "vi">>, defaultLocale |-> "en"]

\* a locale's name as characters
CharsOf == [en |-> <<"e", "n">>, vi |-> <<"v", "i">>]

\* the language of each well-formed tag; "*" is no language tag
LanguageOf == [en |-> "en", vi |-> "vi", fr |-> "fr"] @@ ("vi-VN" :> "vi")

IsLocale(language) ==
    \E k \in 1..Len(i18nConfig.locales) : i18nConfig.locales[k] = language

\* matchLocale(languages, i18nConfig.locales, i18nConfig.defaultLocale): the
\* requested tags are canonicalized first, which throws a RangeError on a tag
\* that is no language tag; then the first requested language that is a
\* locale, or the default locale
getLocale(languages) ==
    IF \E k \in 1..Len(languages) : languages[k] \notin DOMAIN LanguageOf
    THEN [threw |-> TRUE]
    ELSE LET hits == {k \in 1..Len(languages) : IsLocale(LanguageOf[languages[k]])}
         IN [threw  |-> FALSE,
             locale |-> IF hits = {} THEN i18nConfig.defaultLocale
                        ELSE LanguageOf[languages[CHOOSE h \in hits : \A g \in hits : h <= g]]]

\* pathname.includes(".")
IncludesDot(pathname) == \E k \in 1..Len(pathname) : pathname[k] = "."

SkipsInternal(pathname) ==
    \/ StartsWith(pathname, <<"/", "_", "n", "e", "x", "t">>)
    \/ StartsWith(pathname, <<"/", "a", "p", "i">>)
    \/ StartsWith(pathname, <<"/", "s", "t", "a", "t", "i", "c">>)
    \/ IncludesDot(pathname)

pathnameHasLocale(pathname) ==
    \E k \in 1..Len(i18nConfig.locales) :
        LET locale == CharsOf[i18nConfig.locales[k]]
        IN \/ StartsWith(pathname, <<"/">> \o locale \o <<"/">>)
           \/ pathname = <<"/">> \o locale

\* proxy(request): nothing returned, a redirect, or the exception of getLocale
proxy(pathname, languages) ==
    IF SkipsInternal(pathname) THEN [kind |-> "next"]
    ELSE IF pathnameHasLocale(pathname) THEN [kind |-> "next"]
    ELSE IF getLocale(languages).threw THEN [kind |-> "throw"]
    ELSE [kind |-> "redirect",
          pathname |-> <<"/">> \o CharsOf[getLocale(languages).locale] \o pathname]

\* a client sends a request
Receive(pathname, languages) ==
    /\ request.status = "none"
    /\ request' = [status |-> "received", original |-> pathname, pathname |-> pathname,
                   languages |-> languages, redirects |-> 0]
    /\ UNCHANGED <<doc, tree, pc, ran, store, platformSep, authors, errors, build>>

\* the proxy handles the request
Proxy ==
    /\ request.status = "received"
    /\ LET result == proxy(request.pathname, request.languages)
       IN request' =
            IF result.kind = "next" THEN [request EXCEPT !.status = "passed"]
            ELSE IF result.kind = "throw" THEN [request EXCEPT !.status = "failed"]
            ELSE [request EXCEPT !.status = "redirected",
                                 !.pathname = result.pathname,
                                 !.redirects = @ + 1]
    /\ UNCHANGED <<doc, tree, pc, ran, store, platformSep, authors, errors, build>>

\* the client follows the redirect: the new path is requested, same headers
Follow ==
    /\ request.status = "redirected"
    /\ request.redirects < MaxRedirects
    /\ request' = [request EXCEPT !.status = "received"]
    /\ UNCHANGED <<doc, tree, pc, ran, store, platformSep, authors, errors, build>>

\* the request is over: the page is served, or the error is
Close ==
    /\ request.status \in {"passed", "failed"}
    /\ request' = NoRequest
    /\ UNCHANGED <<doc, tree, pc, ran, store, platformSep, authors, errors, build>>

Plugins ==
    \/ RehypeSlugPass
    \/ RawCapturePass
    \/ RehypePrettyCodePass
    \/ MetaHoistPass
    \/ RehypeNpmCommandPass
    \/ RehypeAutolinkHeadingsPass

(***************************************************************************)
(* The documents each specification compiles.                              *)
(***************************************************************************)
Content(lead, words, trail, blocks) ==
    [lead |-> lead, words |-> words, trail |-> trail, blocks |-> blocks]

Heading(text) == [kind |-> "heading", text |-> text]

Fence(lang, title, caption, text) ==
    [kind |-> "code", lang |-> lang, title |-> title, caption |-> caption, text |-> text]

\* segments joined by one separator
PathOf(segs, sep) ==
    [i \in 1..(2 * Len(segs) - 1) |-> IF i % 2 = 1 THEN segs[(i + 1) \div 2] ELSE sep]

GuidePath(s) == PathOf(<<"vi", "guide">>, s)

PostPath(s) == PathOf(<<"vi", "my-post">>, s)

OtherPostPath(s) == PathOf(<<"vi", "other">>, s)

InstallText == NpmI \o <<" ", "x", "\n">>

ListText == <<"l", "s", "\n", "\n", "l", "s", "\n">>

Blocks ==
    {Heading(<<"Intro">>), Heading(<<"Usage">>), Fence("bash", FALSE, FALSE, ListText)}
    \cup {Fence("bash", title, caption, InstallText) : title \in BOOLEAN, caption \in BOOLEAN}

Bodies(n) == UNION {[1..k -> Blocks] : k \in 0..n}

\* the pipeline specification: bodies of headings and fences
PipelineInputs ==
    [s \in Separators |->
        {DocsSource(GuidePath(s), Content(0, 3, 0, body)) : body \in Bodies(MaxBlocks)}
        \cup {BlogsSource(PostPath(s), Content(0, 3, 0, body), "huynhsang") :
                body \in Bodies(1)}]

\* the slug specification: paths of up to MaxSegs segments, in both collections,
\* with the platform's separator
SegmentNames == {"vi", "guide", "index"}

Paths(s) ==
    {PathOf(segs, s) : segs \in UNION {[1..k -> SegmentNames] : k \in 1..MaxSegs}}

SlugInputs ==
    [s \in Separators |->
        {DocsSource(path, Content(0, 0, 0, <<>>)) : path \in Paths(s)}
        \cup {BlogsSource(path, Content(0, 0, 0, <<>>), Undefined) : path \in Paths(s)}]

\* the blog specification: word counts around the multiples of wordsPerMinute,
\* padded or not, and author ids and directories
WordCounts ==
    UNION {{w \in (k * wordsPerMinute - WordWindow)..(k * wordsPerMinute + WordWindow) :
              w >= 0} : k \in 0..MaxMinutes}

BlogPaths(s) ==
    {PostPath(s),
     PathOf(<<"en", "my-post">>, s),
     PathOf(<<"vi", "2024", "my-post">>, s),
     PathOf(<<"my-post">>, s)}

AuthorIds == {"huynhsang", "nobody", Undefined}

BlogInputs ==
    [s \in Separators |->
        {BlogsSource(path, Content(0, 2 * wordsPerMinute, 0, <<>>), author_id) :
            path \in BlogPaths(s), author_id \in AuthorIds}
        \cup {BlogsSource(PostPath(s), Content(lead, words, trail, <<>>), "huynhsang") :
                lead \in 0..MaxPad, words \in WordCounts, trail \in 0..MaxPad}
        \cup {BlogsSource(OtherPostPath(s), Content(0, words, 0, <<>>), "huynhsang") :
                words \in WordCounts}]

\* the heading specification: bodies of up to MaxHeadings headings, repeated,
\* numbered like a repeated one, or of punctuation only
HeadingBlocks ==
    {Heading(<<"Intro">>), Heading(<<"Intro", " ", "1">>), Heading(<<"?">>)}

HeadingInputs ==
    [s \in Separators |->
        {DocsSource(GuidePath(s), Content(0, 3, 0, body)) :
            body \in UNION {[1..k -> HeadingBlocks] : k \in 1..MaxHeadings}}]

\* the command specification: one fence, of a shell or another language, with
\* or without title and caption, over an installer invocation or another text
InstallLongText == NpmI \o <<"n", "s", "t", "a", "l", "l", " ", "x", "\n">>

InstallTwiceText == NpmI \o <<" ", "x", ";">> \o NpmI \o <<" ", "y", "\n">>

CreateText == NpxCreate \o <<"x", "\n">>

RunText == Npx \o <<" ", "x", "\n">>

CreateTwiceText == NpxCreate \o <<"x", ";">> \o NpxCreate \o <<"y", "\n">>

RunTwiceText == Npx \o <<" ", "x", ";">> \o Npx \o <<" ", "y", "\n">>

CommandTexts ==
    {InstallText, InstallLongText, InstallTwiceText, CreateText, CreateTwiceText,
     RunText, RunTwiceText, ListText}

CommandInputs ==
    [s \in Separators |->
        {BlogsSource(PostPath(s),
                     Content(0, 3, 0, <<Fence(lang, title, caption, text)>>), "huynhsang") :
            lang \in {"bash", "js"}, title \in BOOLEAN, caption \in BOOLEAN,
            text \in CommandTexts}]

\* the highlighting specification: one fence of up to MaxLines lines, empty or
\* not, whose header selects any of the line numbers up to MaxLines
FenceMarked(lang, title, caption, text, lines) ==
    [kind |-> "code", lang |-> lang, title |-> title, caption |-> caption,
     text |-> text, lines |-> lines]

RECURSIVE TextOfLines(_)
TextOfLines(lines) ==
    IF Len(lines) = 0 THEN <<>> ELSE lines[1] \o <<"\n">> \o TextOfLines(Tail(lines))

SourceLines == {<<>>, <<"l", "s">>}

HighlightInputs ==
    [s \in Separators |->
        {DocsSource(GuidePath(s),
                    Content(0, 3, 0, <<FenceMarked("js", title, FALSE, TextOfLines(ls), marked)>>)) :
            title \in BOOLEAN,
            ls \in UNION {[1..k -> SourceLines] : k \in 1..MaxLines},
            marked \in SUBSET (1..MaxLines)}]

\* the annotation specification: one fence, with or without title and caption,
\* whose pre carries no __src__ or __style__, a value or the empty string
FenceAnnotated(lang, title, caption, text, src, style) ==
    [kind |-> "code", lang |-> lang, title |-> title, caption |-> caption,
     text |-> text, __src__ |-> src, __style__ |-> style]

AnnotationInputs ==
    [s \in Separators |->
        {DocsSource(GuidePath(s),
                    Content(0, 3, 0, <<FenceAnnotated("bash", title, caption, InstallText,
                                                      src, style)>>)) :
            title \in BOOLEAN, caption \in BOOLEAN,
            src \in {<<>>, <<"">>, <<"demo.tsx">>},
            style \in {<<>>, <<"">>, <<"new-york">>}}]

\* the failure specification: two docs files, either of which may fail
IntroPath(s) == PathOf(<<"vi", "intro">>, s)

FailureInputs ==
    [s \in Separators |->
        {DocsSource(path, Content(0, 3, 0, body)) :
            path \in {GuidePath(s), IntroPath(s)}, body \in Bodies(1)}]

\* the build specification: up to MaxFiles files out of valid ones, two of
\* them under one slug, files that lack a required field and a malformed one
BlogFields == {"title", "excerpt", "date", "tags"}

WellFormed == Content(0, 3, 0, <<Heading(<<"Intro">>)>>)

Unclosed == Content(0, 3, 0, <<[kind |-> "unclosed", text |-> <<"<div>">>]>>)

BuildFiles(s) ==
    {File("docs", GuidePath(s), {"title"}, WellFormed),
     File("docs", PathOf(<<"vi", "guide", "index">>, s), {"title"}, WellFormed),
     File("docs", IntroPath(s), {}, WellFormed),
     File("docs", PathOf(<<"vi", "broken">>, s), {"title"}, Unclosed),
     File("blogs", PostPath(s), BlogFields \cup {"author_id"}, WellFormed)}
    \cup {File("blogs", OtherPostPath(s), BlogFields \ {k}, WellFormed) : k \in BlogFields}

FileSets ==
    [s \in Separators |->
        {fs \in SUBSET BuildFiles(s) :
            /\ Cardinality(fs) \in 1..MaxFiles
            /\ \A f, g \in fs : (f.collection = g.collection /\ f.rel = g.rel) => f = g}]

\* the proxy specification: paths of up to MaxPathSegs segments, with or
\* without a closing slash, and headers of up to MaxLanguages tags
ProxySegments ==
    { <<"e", "n">>, <<"v", "i">>, <<"e", "n", "v">>, <<"a", "p", "i">>,
      <<"_", "n", "e", "x", "t">>, <<"s", "t", "a", "t", "i", "c">>,
      <<"a", ".", "b">>, <<"x">> }

RECURSIVE Slashed(_)
Slashed(segs) ==
    IF Len(segs) = 0 THEN <<>> ELSE <<"/">> \o segs[1] \o Slashed(Tail(segs))

RequestPaths ==
    LET plain == {Slashed(segs) :
                    segs \in UNION {[1..k -> ProxySegments] : k \in 1..MaxPathSegs}}
    IN {<<"/">>} \cup plain \cup {p \o <<"/">> : p \in {q \in plain : Len(q) <= 4}}

LanguageTags == {"en", "vi", "vi-VN", "fr", "*"}

RequestLanguages == UNION {[1..k -> LanguageTags] : k \in 0..MaxLanguages}

(***************************************************************************)
(* Specifications.                                                         *)
(***************************************************************************)
Next ==
    \/ \E d \in PipelineInputs[platformSep] : Begin(d)
    \/ Plugins
    \/ DocsTransformReturn
    \/ BlogsTransformReturn

Spec == Init /\ [][Next]_vars

NextSlug ==
    \/ \E d \in SlugInputs[platformSep] : Begin(d)
    \/ Plugins
    \/ DocsTransformReturn
    \/ BlogsTransformReturn

SpecSlug == Init /\ [][NextSlug]_vars

NextBlog ==
    \/ \E d \in BlogInputs[platformSep] : Begin(d)
    \/ Plugins
    \/ BlogsTransformReturn

SpecBlog == Init /\ [][NextBlog]_vars

NextHeading ==
    \/ \E d \in HeadingInputs[platformSep] : Begin(d)
    \/ Plugins
    \/ DocsTransformReturn

SpecHeading == Init /\ [][NextHeading]_vars

NextCommand ==
    \/ \E d \in CommandInputs[platformSep] : Begin(d)
    \/ Plugins
    \/ BlogsTransformReturn

SpecCommand == Init /\ [][NextCommand]_vars

NextFailure ==
    \/ \E d \in FailureInputs[platformSep] : Begin(d)
    \/ Plugins
    \/ CompileThrows
    \/ DocsTransformReturn

SpecFailure == Init /\ [][NextFailure]_vars

NextHighlight ==
    \/ \E d \in HighlightInputs[platformSep] : Begin(d)
    \/ Plugins
    \/ DocsTransformReturn

SpecHighlight == Init /\ [][NextHighlight]_vars

NextAnnotation ==
    \/ \E d \in AnnotationInputs[platformSep] : Begin(d)
    \/ Plugins
    \/ DocsTransformReturn

SpecAnnotation == Init /\ [][NextAnnotation]_vars

NextProxy ==
    \/ \E pathname \in RequestPaths, languages \in RequestLanguages :
          Receive(pathname, languages)
    \/ Proxy
    \/ Follow
    \/ Close

SpecProxy == Init /\ [][NextProxy]_vars

NextBuild ==
    \/ \E fs \in FileSets[platformSep] : BuildStart(fs)
    \/ \E f \in build.pending : ParseFile(f)
    \/ \E d \in build.running : TransformResolves(d)
    \/ \E d \in build.running : TransformRejects(d)
    \/ BuildEnd

SpecBuild == Init /\ [][NextBuild]_vars

(***************************************************************************)
(* Claims about the rewrite pipeline, checked under Spec.                  *)
(***************************************************************************)
\* the pre elements a top-level node of the compiled tree shows: itself, or the
\* pre children of the figure the highlighter made of it
PresIn(node) ==
    IF node.tagName = "pre" THEN {node}
    ELSE {node.children[i] :
            i \in {j \in 1..Len(node.children) :
                     IsElement(node.children[j]) /\ node.children[j].tagName = "pre"}}

CodeBlocksOf(r) == {i \in 1..Len(r.content.blocks) : r.content.blocks[i].kind = "code"}

\* C1: in every compiled record, the final pre of every fenced code block,
\* whatever its header carries, has the fence's text as its __rawString__ property.
C1_RawStringRetained ==
    \A r \in Stored : \A i \in CodeBlocksOf(r) :
        /\ PresIn(r.mdx[i]) # {}
        /\ \A pre \in PresIn(r.mdx[i]) :
              /\ Has(pre.properties, "__rawString__")
              /\ pre.properties["__rawString__"] = r.content.blocks[i].text

\* the order the claim gives: heading ids, raw capture, highlighting, hoist,
\* package-manager variants, anchors
PassOrder ==
    <<"rehypeSlug", "rawCapture", "rehypePrettyCode", "metaHoist",
      "rehypeNpmCommand", "rehypeAutolinkHeadings">>

\* C2: the passes that have run on the document in compilation are an initial
\* part of the claimed order, one more after each step, and the record is
\* assembled only when all six have run, each once.
C2_PassesInOrder ==
    /\ Len(ran) <= Len(PassOrder)
    /\ ran = SubSeq(PassOrder, 1, Len(ran))
    /\ pc # Idle => Len(ran) = pc - 1
    /\ pc = Assembling => ran = PassOrder

\* a document with a fence and a heading has gone through all six passes
C2_Witness ==
    /\ pc = Assembling
    /\ ran = PassOrder
    /\ \E i \in 1..Len(tree) : tree[i].tagName = "figure"
    /\ \E i \in 1..Len(tree) : IsHeading(tree[i])

(***************************************************************************)
(* Claims about the derived fields, checked under SpecSlug and SpecBlog.   *)
(***************************************************************************)
\* the segment names of a path, whichever separator it is written with
SegmentsOf(p) == [i \in 1..((Len(p) + 1) \div 2) |-> p[2 * i - 1]]

\* the slug made of the given segments: "/" before each
SlashJoined(segs) ==
    [i \in 1..(2 * Len(segs)) |-> IF i % 2 = 1 THEN "/" ELSE segs[i \div 2]]

\* C3: within a collection, records of distinct paths have distinct slugs.
C3_SlugsUnique ==
    \A c \in {"docs", "blogs"} : \A r, q \in store[c] :
        r.meta.path # q.meta.path => r.slug # q.slug

\* C4: a docs record whose path has a parent and ends in the segment index has
\* the parent path's slug; one whose path does not end in index has the slug of
\* all its segments.
C4_IndexCollapsing ==
    \A r \in store.docs :
        LET segs == SegmentsOf(r.meta.path)
            n    == Len(segs)
        IN /\ (n >= 2 /\ segs[n] = "index") => r.slug = SlashJoined(SubSeq(segs, 1, n - 1))
           /\ segs[n] # "index" => r.slug = SlashJoined(segs)

\* the locale-root index and a section index are stored, collapsed
C4_Witness ==
    /\ \E r \in store.docs :
          SegmentsOf(r.meta.path) = <<"vi", "index">> /\ r.slug = <<"/", "vi">>
    /\ \E r \in store.docs :
          /\ SegmentsOf(r.meta.path) = <<"vi", "guide", "index">>
          /\ r.slug = <<"/", "vi", "/", "guide">>

\* C5 as stated: the read time of every blog record is its body's word count
\* divided by 200, rounded up.
C5_CeilOfWords ==
    \A r \in store.blogs :
        /\ r.readTimeInMinutes * 200 >= r.content.words
        /\ (r.readTimeInMinutes - 1) * 200 < r.content.words

\* C5 as the code has it: the same, except that a body without any word has
\* read time 1; 400 words give 2 and 401 give 3.
C5_CeilOfWordsAtLeastOne ==
    \A r \in store.blogs :
        /\ r.content.words = 0 => r.readTimeInMinutes = 1
        /\ r.content.words > 0 =>
              /\ r.readTimeInMinutes * 200 >= r.content.words
              /\ (r.readTimeInMinutes - 1) * 200 < r.content.words
        /\ r.content.words = 400 => r.readTimeInMinutes = 2
        /\ r.content.words = 401 => r.readTimeInMinutes = 3

\* a padded body of 401 words and a body without words are stored
C5_Witness ==
    /\ \E r \in store.blogs :
          r.content.words = 401 /\ r.content.lead > 0 /\ r.readTimeInMinutes = 3
    /\ \E r \in store.blogs : r.content.words = 0 /\ r.readTimeInMinutes = 1

\* C6: of two blog records the one with fewer words has no larger read time,
\* and every read time is at least 1.
C6_MonotoneAtLeastOne ==
    /\ \A r, q \in store.blogs :
          r.content.words < q.content.words => r.readTimeInMinutes <= q.readTimeInMinutes
    /\ \A r \in store.blogs : r.readTimeInMinutes >= 1

\* a whitespace-only body and a longer body with a larger read time are stored
C6_Witness ==
    \E r, q \in store.blogs :
        /\ r.content.words = 0 /\ r.content.lead + r.content.trail > 0
        /\ q.content.words > wordsPerMinute
        /\ r.readTimeInMinutes < q.readTimeInMinutes

InTable(author_id) == \E i \in 1..Len(authors) : authors[i].id = author_id

\* C7: a blog record whose author_id is the id of no entry of the authors
\* table has as author the record of the single field id, holding that author_id.
C7_AuthorFallback ==
    \A r \in store.blogs : ~InTable(r.author_id) => r.author = [id |-> r.author_id]

\* records of an unknown author and of a missing author_id are stored
C7_Witness ==
    /\ \E r \in store.blogs : r.author_id = "nobody" /\ r.author = [id |-> "nobody"]
    /\ \E r \in store.blogs : r.author_id = Undefined /\ DOMAIN r.author = {"id"}

\* C8: a blog record whose author_id is the id of a table entry has as author
\* that entry with, as bio, the entry's bio for the first segment of the
\* record's path, or the vi bio when the entry has none for it.
C8_BioOfPathLocale ==
    \A r \in store.blogs : \A i \in 1..Len(authors) :
        authors[i].id = r.author_id =>
            LET locale == SegmentsOf(r.meta.path)[1]
                bio    == IF locale \in DOMAIN authors[i].bio
                          THEN authors[i].bio[locale] ELSE authors[i].bio.vi
            IN r.author = [authors[i] EXCEPT !.bio = bio]

IsExample(r) ==
    /\ SegmentsOf(r.meta.path) = <<"vi", "my-post">>
    /\ r.author_id = "huynhsang"
    /\ r.content.words = 400

\* C9 as stated: the record of vi/my-post by huynhsang with 400 words has slug
\* /blog/vi/my-post, read time 2 and author name Huỳnh Sang.
C9_ExampleUnderBlog ==
    \A r \in store.blogs : IsExample(r) =>
        /\ r.slug = <<"/", "blog", "/", "vi", "/", "my-post">>
        /\ r.readTimeInMinutes = 2
        /\ Has(r.author, "name") /\ r.author.name = "Huỳnh Sang"

\* C9 as the code has it: the slug is /vi/my-post, the path below the
\* collection's directory; read time 2 and author name Huỳnh Sang.
C9_Example ==
    \A r \in store.blogs : IsExample(r) =>
        /\ r.slug = <<"/", "vi", "/", "my-post">>
        /\ r.readTimeInMinutes = 2
        /\ Has(r.author, "name") /\ r.author.name = "Huỳnh Sang"

\* the example's record is stored
C9_Witness ==
    \E r \in store.blogs :
        /\ IsExample(r)
        /\ r.content.lead = 0 /\ r.content.trail = 0
        /\ r.slug = <<"/", "vi", "/", "my-post">>

(***************************************************************************)
(* Claims about headings, checked under SpecHeading.                       *)
(***************************************************************************)
HeadingsOf(r) == {i \in 1..Len(r.mdx) : IsHeading(r.mdx[i])}

LinksTo(node, id) ==
    \E k \in 1..Len(node.children) :
        /\ IsElement(node.children[k])
        /\ node.children[k].tagName = "a"
        /\ Has(node.children[k].properties, "href")
        /\ node.children[k].properties["href"] = <<"#">> \o id

\* C11: in every compiled record every heading has an id that is not empty and
\* that no other heading of the record has, and holds a link to # and that id.
C11_HeadingsAnchored ==
    \A r \in Stored : \A i \in HeadingsOf(r) :
        /\ Has(r.mdx[i].properties, "id")
        /\ r.mdx[i].properties["id"] # <<>>
        /\ \A j \in HeadingsOf(r) \ {i} :
              Has(r.mdx[j].properties, "id")
                 => r.mdx[j].properties["id"] # r.mdx[i].properties["id"]
        /\ LinksTo(r.mdx[i], r.mdx[i].properties["id"])

(***************************************************************************)
(* Claims about package-manager variants, checked under SpecCommand.       *)
(***************************************************************************)
CommandKeys == {"__npmCommand__", "__yarnCommand__", "__pnpmCommand__", "__bunCommand__"}

Whitespace == {" ", "\n"}

\* the command of the manager's verb over what follows npm i in the text
VariantOf(text, verb) == verb \o SubSeq(text, Len(NpmI) + 1, Len(text))

\* the text goes on after npm i with the arguments, not with more of a word
IsInstallInvocation(text) ==
    Len(text) = Len(NpmI) \/ text[Len(NpmI) + 1] \in Whitespace

\* C12: the final pre of every code block whose text starts with npm i has the
\* text as __npmCommand__ and, as yarn, pnpm and bun commands, the text with
\* only the leading npm i replaced by yarn add, pnpm add and bun add, each an
\* install command of its manager over the same arguments.
C12_InstallVariants ==
    \A r \in Stored : \A i \in CodeBlocksOf(r) :
        LET text == r.content.blocks[i].text
        IN StartsWith(text, NpmI) =>
              /\ PresIn(r.mdx[i]) # {}
              /\ \A pre \in PresIn(r.mdx[i]) :
                    /\ CommandKeys \subseteq DOMAIN pre.properties
                    /\ pre.properties["__npmCommand__"] = text
                    /\ pre.properties["__yarnCommand__"] = VariantOf(text, YarnAdd)
                    /\ pre.properties["__pnpmCommand__"] = VariantOf(text, PnpmAdd)
                    /\ pre.properties["__bunCommand__"] = VariantOf(text, BunAdd)
              /\ IsInstallInvocation(text)

HasVariant(r, i) ==
    \E pre \in PresIn(r.mdx[i]) : CommandKeys \cap DOMAIN pre.properties # {}

\* C13 as stated: a code block whose final pre has any of the four command
\* properties is a shell fence whose text starts with npm i or npx create-.
C13_OnlyShellInstallers ==
    \A r \in Stored : \A i \in CodeBlocksOf(r) :
        HasVariant(r, i) =>
            /\ r.content.blocks[i].lang = "bash"
            /\ \/ StartsWith(r.content.blocks[i].text, NpmI)
               \/ StartsWith(r.content.blocks[i].text, NpxCreate)

\* C13 as the code has it: a code block, of any language, whose final pre has
\* any of the four command properties has a text that starts with npm i or
\* with npx, and has all four.
C13_OnlyInvocations ==
    \A r \in Stored : \A i \in CodeBlocksOf(r) :
        HasVariant(r, i) =>
            /\ \/ StartsWith(r.content.blocks[i].text, NpmI)
               \/ StartsWith(r.content.blocks[i].text, Npx)
            /\ \A pre \in PresIn(r.mdx[i]) : CommandKeys \subseteq DOMAIN pre.properties

\* a fence of another language over npx x has the variants
C13_Witness ==
    \E r \in Stored :
        /\ r.content.blocks[1].lang = "js"
        /\ r.content.blocks[1].text = RunText
        /\ HasVariant(r, 1)

\* the pre elements of a compiled record that carry a raw source
RawPresOf(r) ==
    UNION {{pre \in PresIn(r.mdx[i]) : Has(pre.properties, "__rawString__")} :
             i \in CodeBlocksOf(r)}

\* what follows the given prefix in the text
After(text, prefix) == SubSeq(text, Len(prefix) + 1, Len(text))

\* C25: a pre whose raw source starts with npx create- has the raw source as
\* npm command, yarn create and pnpm create followed by what follows npx
\* create- as yarn and pnpm commands, and bunx --bun followed by what follows
\* npx as bun command: the values the scaffold branch wrote, not overwritten.
C25_CreateVariants ==
    \A r \in Stored : \A pre \in RawPresOf(r) :
        LET raw == pre.properties["__rawString__"]
        IN StartsWith(raw, NpxCreate) =>
              /\ CommandKeys \subseteq DOMAIN pre.properties
              /\ pre.properties["__npmCommand__"] = raw
              /\ pre.properties["__yarnCommand__"] = YarnCreate \o After(raw, NpxCreate)
              /\ pre.properties["__pnpmCommand__"] = PnpmCreate \o After(raw, NpxCreate)
              /\ pre.properties["__bunCommand__"] = BunxBun \o After(raw, Npx)

\* a fence with npx create- twice in its text is stored, the first replaced
C25_Witness ==
    \E r \in Stored : \E pre \in RawPresOf(r) :
        /\ pre.properties["__rawString__"] = CreateTwiceText
        /\ pre.properties["__yarnCommand__"]
              = YarnCreate \o <<"x", ";">> \o NpxCreate \o <<"y", "\n">>

\* the branches of the pass that write on a pre of the given raw source
BranchesWriting(raw) ==
    LET base == [__rawString__ |-> raw]
    IN {b \in {"install", "create", "npx"} :
          (CASE b = "install" -> InstallBranch(base)
             [] b = "create" -> CreateBranch(base)
             [] b = "npx" -> NpxBranch(base)) # base}

\* C28: in every compiled record every pre has all four command properties or
\* none; one that has them has a raw source, equal to its npm command; and at
\* most one branch of the pass writes on a pre, whatever its raw source.
C28_AllOrNone ==
    \A r \in Stored : \A i \in CodeBlocksOf(r) : \A pre \in PresIn(r.mdx[i]) :
        /\ \/ CommandKeys \subseteq DOMAIN pre.properties
           \/ CommandKeys \cap DOMAIN pre.properties = {}
        /\ CommandKeys \subseteq DOMAIN pre.properties =>
              /\ Has(pre.properties, "__rawString__")
              /\ pre.properties["__npmCommand__"] = pre.properties["__rawString__"]
              /\ Cardinality(BranchesWriting(pre.properties["__rawString__"])) = 1
        /\ Has(pre.properties, "__rawString__") =>
              Cardinality(BranchesWriting(pre.properties["__rawString__"])) <= 1

\* a record whose pre has the four commands is stored while the pass has left
\* the pre of the document in compilation, a listing, without any
C28_Witness ==
    /\ \E r \in Stored : \E pre \in RawPresOf(r) :
          /\ CommandKeys \subseteq DOMAIN pre.properties
          /\ StartsWith(pre.properties["__rawString__"], NpxCreate)
    /\ pc = Assembling
    /\ \E pre \in PresIn(tree[1]) :
          /\ Has(pre.properties, "__rawString__")
          /\ pre.properties["__rawString__"] = ListText
          /\ CommandKeys \cap DOMAIN pre.properties = {}

\* C29: a pre whose raw source starts with npx and not with npx create- has
\* the raw source as npm and as yarn command, pnpm dlx followed by what
\* follows npx as pnpm command and bunx --bun followed by it as bun command.
C29_RunVariants ==
    \A r \in Stored : \A pre \in RawPresOf(r) :
        LET raw == pre.properties["__rawString__"]
        IN (StartsWith(raw, Npx) /\ ~StartsWith(raw, NpxCreate)) =>
              /\ CommandKeys \subseteq DOMAIN pre.properties
              /\ pre.properties["__npmCommand__"] = raw
              /\ pre.properties["__yarnCommand__"] = raw
              /\ pre.properties["__pnpmCommand__"] = PnpmDlx \o After(raw, Npx)
              /\ pre.properties["__bunCommand__"] = BunxBun \o After(raw, Npx)

\* a fence with npx twice in its text is stored, the first replaced
C29_Witness ==
    \E r \in Stored : \E pre \in RawPresOf(r) :
        /\ pre.properties["__rawString__"] = RunTwiceText
        /\ pre.properties["__pnpmCommand__"]
              = PnpmDlx \o <<" ", "x", ";">> \o Npx \o <<" ", "y", "\n">>

(***************************************************************************)
(* Claims about the record's layout.                                       *)
(***************************************************************************)
\* C14: in every compiled record the legacy id, the legacy source file path
\* and the document's file path are one value, body.raw is the document's raw
\* content and body.code is the mdx field.
C14_LegacyLayout ==
    \A r \in Stored :
        /\ r.id = r.raw.sourceFilePath
        /\ r.id = r.meta.filePath
        /\ r.body.raw = r.content
        /\ r.body.code = r.mdx

\* records with a compiled body are stored in both collections
C14_Witness ==
    /\ \E r \in store.docs : Len(r.mdx) > 0 /\ r.body.code = r.mdx
    /\ \E r \in store.blogs : Len(r.mdx) > 0 /\ r.id = r.meta.filePath

\* C15: in every compiled record slug starts with "/", slugAsParams is not
\* empty and does not start with "/", and slug is "/" followed by slugAsParams.
C15_SlugShapes ==
    \A r \in Stored :
        /\ r.slug # <<>> /\ r.slug[1] = "/"
        /\ r.slugAsParams # <<>> /\ r.slugAsParams[1] # "/"
        /\ r.slug = <<"/">> \o r.slugAsParams

\* the docs record of the path index and a blogs record of three segments are stored
C15_Witness ==
    /\ \E r \in store.docs :
          SegmentsOf(r.meta.path) = <<"index">> /\ r.slugAsParams = <<"index">>
    /\ \E r \in store.blogs :
          Len(SegmentsOf(r.meta.path)) = 3 /\ Len(r.slugAsParams) = 5

\* the top-level elements of a compiled body whose last child is a pre
WrappersOf(r) ==
    {i \in 1..Len(r.mdx) :
        /\ IsElement(r.mdx[i])
        /\ Len(r.mdx[i].children) > 0
        /\ IsElement(r.mdx[i].children[Len(r.mdx[i].children)])
        /\ r.mdx[i].children[Len(r.mdx[i].children)].tagName = "pre"}

RecordOf(c, filePath) == {r \in store[c] : r.id = filePath}

\* C17: a record enters the store only in a step taken after all six passes
\* have run, with the fully rewritten tree as its body; a step that abandons a
\* compilation before that leaves no record of the document in the store.
C17_NoPartialRecord ==
    [][
        /\ \A c \in {"docs", "blogs"} : \A r \in store'[c] \ store[c] :
              /\ Len(ran) = 6
              /\ r.mdx = tree
              /\ r.id = doc.meta.filePath
        /\ (pc \in 1..6 /\ pc' = Idle) =>
              \A c \in {"docs", "blogs"} : \A q \in store'[c] :
                  q.id # doc.meta.filePath
    ]_vars

\* a compilation was abandoned: its failure is reported, the file has no
\* record, and another file's record is stored
C17_Witness ==
    /\ pc = Idle
    /\ \E e \in errors :
          /\ e.type = "Transform"
          /\ RecordOf(e.collection, e.filePath) = {}
    /\ Stored # {}

(***************************************************************************)
(* Claims about the build, checked under SpecBuild.                        *)
(***************************************************************************)
\* the fields the claim names as required
SchemaRequires ==
    [docs |-> {"title"}, blogs |-> {"title", "excerpt", "date", "tags"}]

Lacking(f) == SchemaRequires[f.collection] \ f.data

FilePathOf(f) == f.rel \o <<".mdx">>

ErrorsOf(f) ==
    {e \in errors : e.collection = f.collection /\ e.filePath = FilePathOf(f)}

\* C16: a file of the build that lacks a required field is never in
\* transformation and never has a record; the only failure reported for it is
\* a validation failure and, once the file has been read, one is reported
\* that names the fields it lacks.
C16_SchemaRejection ==
    \A f \in build.files : Lacking(f) # {} =>
        /\ \A d \in build.running :
              ~(d.collection = f.collection /\ d.meta.filePath = FilePathOf(f))
        /\ RecordOf(f.collection, FilePathOf(f)) = {}
        /\ \A e \in ErrorsOf(f) : e.type = "Validation"
        /\ f \notin build.pending =>
              \E e \in ErrorsOf(f) : e.type = "Validation" /\ e.fields = Lacking(f)

\* a build has ended over a blog file without date, reported as such, and a
\* docs file without title, beside a file that has its record
C16_Witness ==
    /\ build.status = "done"
    /\ \E f \in build.files :
          /\ f.collection = "blogs" /\ Lacking(f) = {"date"}
          /\ \E e \in ErrorsOf(f) : e.fields = {"date"}
    /\ \E f \in build.files :
          /\ f.collection = "docs" /\ Lacking(f) = {"title"}
          /\ \E e \in ErrorsOf(f) : e.fields = {"title"}
    /\ Stored # {}

\* C18: a build never ends with the records of two files of one collection
\* under the same slug.
C18_CollisionHaltsBuild ==
    build.status = "done" =>
        \A c \in {"docs", "blogs"} : \A r, q \in store[c] :
            r.id # q.id => r.slug # q.slug

\* C19: a build that ends without failing has attempted every file and
\* holds the record of every one of them: none has failed.
C19_NoSuccessfulPartialBuild ==
    build.status = "done" =>
        \A f \in build.files :
            /\ ErrorsOf(f) = {}
            /\ RecordOf(f.collection, FilePathOf(f)) # {}

(***************************************************************************)
(* Claims about the order of the capture and highlighting passes, checked  *)
(* under SpecCommand.                                                      *)
(***************************************************************************)
Without(plugins, name) == SelectSeq(plugins, LAMBDA p : p # name)

InsertAfter(plugins, k, name) ==
    SubSeq(plugins, 1, k) \o <<name>> \o SubSeq(plugins, k + 1, Len(plugins))

PositionOf(plugins, name) == CHOOSE k \in 1..Len(plugins) : plugins[k] = name

\* the plugin list without the raw capture, and the lists with the raw capture
\* moved to a place after the highlighting
CaptureRemovedOrLate ==
    LET rest == Without(rehypePlugins, "rawCapture")
    IN {rest} \cup {InsertAfter(rest, k, "rawCapture") :
                       k \in PositionOf(rest, "rehypePrettyCode")..Len(rest)}

LinesOfPre(pre) == pre.children[1].children

\* the lines of a fence's text
SourceLinesOf(block) == SplitOn(StripFinalNewline(block.text), "\n")

HasClass(node, class) ==
    /\ Has(node.properties, "className")
    /\ \E k \in 1..Len(node.properties["className"]) : node.properties["className"][k] = class

\* C22: in every compiled record, a line of a code block carries the class
\* line--highlighted exactly when the fence header's ranges select its number.
C22_SelectedLinesHighlighted ==
    \A r \in Stored : \A i \in CodeBlocksOf(r) : \A pre \in PresIn(r.mdx[i]) :
        \A n \in 1..Len(LinesOfPre(pre)) :
            HasClass(LinesOfPre(pre)[n], "line--highlighted")
               <=> n \in r.content.blocks[i].lines

\* C23: in every compiled record every line of a code block has a child: the
\* single text child of one space when the source line is empty, and the
\* highlighter's tokens of the source line when it is not.
C23_NoEmptyLine ==
    \A r \in Stored : \A i \in CodeBlocksOf(r) : \A pre \in PresIn(r.mdx[i]) :
        LET src == SourceLinesOf(r.content.blocks[i])
        IN /\ Len(LinesOfPre(pre)) = Len(src)
           /\ \A n \in 1..Len(src) :
                 LET kids == LinesOfPre(pre)[n].children
                 IN /\ Len(kids) > 0
                    /\ src[n] = <<>> => kids = <<Text(<<" ">>)>>
                    /\ src[n] # <<>> =>
                          kids = <<Element("span", [style |-> "token"], <<Text(src[n])>>)>>

\* a fence of a line of code and an empty line is stored
C23_Witness ==
    \E r \in Stored : \E pre \in PresIn(r.mdx[1]) :
        /\ SourceLinesOf(r.content.blocks[1]) = << <<"l", "s">>, <<>> >>
        /\ LinesOfPre(pre)[2].children = <<Text(<<" ">>)>>
        /\ LinesOfPre(pre)[1].children # <<Text(<<" ">>)>>

C26_IndexDroppedEverywhere ==
    \A r \in Stored :
        LET segs == SegmentsOf(r.meta.path)
            n    == Len(segs)
        IN segs[n] = "index" =>
              /\ n >= 2 => r.slug = SlashJoined(SubSeq(segs, 1, n - 1))
              /\ n = 1 => r.slug # <<"/", "index">>

\* the segments joined by the separators given for each joint
PathWith(segs, seps) ==
    [i \in 1..(2 * Len(segs) - 1) |->
        IF i % 2 = 1 THEN segs[(i + 1) \div 2] ELSE seps[i \div 2]]

SlugOf(collection, path) ==
    IF collection = "docs" THEN DocsSlug(path) ELSE BlogsSlug(path)

CollectionOf(r) == IF r \in store.docs THEN "docs" ELSE "blogs"

\* C27: in every compiled record slug, slugAsParams and the flattened path
\* hold no backslash; the path of the same segments written with any mix of
\* the two separators gives the record's slug; and the flattened path is
\* unchanged by normalizing it again.
C27_SeparatorsNormalized ==
    \A r \in Stored :
        LET segs == SegmentsOf(r.meta.path)
        IN /\ \A k \in 1..Len(r.slug) : r.slug[k] # "\\"
           /\ \A k \in 1..Len(r.slugAsParams) : r.slugAsParams[k] # "\\"
           /\ \A k \in 1..Len(r.raw.flattenedPath) : r.raw.flattenedPath[k] # "\\"
           /\ \A seps \in [1..(Len(segs) - 1) -> Separators] :
                 SlugOf(CollectionOf(r), PathWith(segs, seps)) = r.slug
           /\ r.raw.flattenedPath = PathOf(segs, "/")
           /\ NormalizeSeparators(r.raw.flattenedPath) = r.raw.flattenedPath

\* on a platform that separates with backslashes, a path of three segments
\* is stored in each collection under a slug of forward slashes
C27_Witness ==
    /\ platformSep = "\\"
    /\ \E r \in store.docs :
          r.meta.path = <<"vi", "\\", "guide", "\\", "vi">>
             /\ r.slug = <<"/", "vi", "/", "guide", "/", "vi">>
    /\ \E r \in store.blogs :
          r.meta.path = <<"vi", "\\", "guide", "\\", "vi">>
             /\ r.slug = <<"/", "vi", "/", "guide", "/", "vi">>

(***************************************************************************)
(* Claims about the locale proxy, checked under SpecProxy.                 *)
(***************************************************************************)
\* the paths the claim lets through
PassesThrough(pathname) ==
    \/ \E prefix \in { <<"/", "_", "n", "e", "x", "t">>, <<"/", "a", "p", "i">>,
                       <<"/", "s", "t", "a", "t", "i", "c">> } :
          StartsWith(pathname, prefix)
    \/ \E k \in 1..Len(pathname) : pathname[k] = "."
    \/ \E locale \in {<<"e", "n">>, <<"v", "i">>} :
          \/ pathname = <<"/">> \o locale
          \/ StartsWith(pathname, <<"/">> \o locale \o <<"/">>)

\* the header names a configured locale, en or vi, as such or with a region
MatchesLocale(languages) ==
    \E k \in 1..Len(languages) : languages[k] \in {"en", "vi", "vi-VN"}

\* what the claim says of a request the proxy has answered, apart from its
\* being answered: a path the claim lets through is passed unchanged and
\* without redirect; any other is redirected once, to a configured locale
\* followed by the path, the default locale when the header matches none, and
\* the new path is one the claim lets through
AnsweredAsClaimed ==
    /\ request.redirects <= 1
    /\ PassesThrough(request.original) =>
          request.redirects = 0 /\ request.pathname = request.original
    /\ (request.status = "passed" /\ ~PassesThrough(request.original)) =>
          request.redirects = 1
    /\ request.redirects = 1 =>
          /\ ~PassesThrough(request.original)
          /\ \E locale \in {<<"e", "n">>, <<"v", "i">>} :
                request.pathname = <<"/">> \o locale \o request.original
          /\ ~MatchesLocale(request.languages) =>
                request.pathname = <<"/", "e", "n">> \o request.original
          /\ PassesThrough(request.pathname)

\* C30: every request is passed through or redirected, never failed, and is
\* answered as the claim says: redirected at most once.
C30_NoRedirectLoop ==
    /\ request.status # "failed"
    /\ request.status \in {"passed", "redirected"} => AnsweredAsClaimed

(***************************************************************************)
(* Determinism.                                                            *)
(***************************************************************************)
SameSource(r, q) ==
    /\ r.meta = q.meta
    /\ r.content = q.content
    /\ Has(r, "author_id") = Has(q, "author_id")
    /\ Has(r, "author_id") => r.author_id = q.author_id

====
